---- MODULE Spec2Model ----
(***************************************************************************)
(* x730: a control daemon for the Geekworm X730 board.                     *)
(*                                                                         *)
(* Part A models src/src/x730/daemon.py: Server.open / Server.close with   *)
(* the lock file and the unix socket file they share with other daemon     *)
(* processes, and Client._api_call with its lock probe.  Every file-system *)
(* call of the code is one step, so that steps of different processes      *)
(* interleave as system calls do.                                          *)
(*                                                                         *)
(* Part B models src/src/x730/x730.py: the X730 controller, its button     *)
(* output line, the status-line callback and the threads that call         *)
(* reboot() / poweroff().                                                  *)
(*                                                                         *)
(* Part C models _sock_receive_all and Part D Server.serve_until, each on  *)
(* its own.                                                                *)
(***************************************************************************)
EXTENDS Integers, Sequences, FiniteSets, TLC

(***************************************************************************)
(* Bounds of the model.                                                    *)
(***************************************************************************)
NServers == 2
NClients == 2

Servers == 1..NServers
Clients == (NServers + 1)..(NServers + NClients)
Procs == Servers \cup Clients
\* A process keeps at most two descriptors on lock files (a Server: the one
\* it holds and the one it is trying), and the path names one more.
Inodes == 1..(2 * NServers + NClients + 1)

VARIABLES
    lockPath,     \* inode the lock file path names, 0: no such file
    lockHolder,   \* inode -> process holding the flock on it, 0: free
    sockPath,     \* server whose socket the socket file path names, 0: no file
    listening,    \* servers whose bound socket is open and listening
    srv,          \* server process -> its Server object and position
    cl            \* client process -> its position in _api_call

dvars == <<lockPath, lockHolder, sockPath, listening, srv, cl>>

VARIABLES
    x,            \* the X730 singleton: _opened, the three pin devices, _shutdown_status[0]
    sinceStatus,  \* time.monotonic() - _shutdown_status[1], in ticks
    held,         \* ticks the button line has been active for
    line,         \* level the board drives on the shutdown status line
    npulses,      \* pulses the board has started on the status line
    thr,          \* the thread that calls reboot() / poweroff(), and what its
                  \* last call saw of the button line
    cb,           \* the thread that runs the status-line callback, and the number
                  \* of OS commands it has run since the last open()
    osLog,        \* OS commands run (subprocess.run), in order
    cls           \* the last pulse measured on a falling edge and what it led to

xvars == <<x, sinceStatus, held, line, npulses, thr, cb, osLog, cls>>

VARIABLES
    rx,           \* a call of _sock_receive_all: its arguments, buffer and position
    sv            \* a call of Server.serve_until and the stop event given to it

ovars == <<rx, sv>>
vars == <<dvars, xvars, ovars>>

(***************************************************************************)
(* Part A: daemon.py                                                       *)
(***************************************************************************)
NoFd == [st |-> "unset", ino |-> 0]
ClosedFd == [st |-> "closed", ino |-> 0]
OpenFd(i) == [st |-> "open", ino |-> i]

\* Server.__init__: no socket, _lock_fd not yet an attribute, X730 closed.
\* last: how the last finished open() / close() ended; after: the value of
\* last when the operation in progress, or the last one, began.
ServerInit ==
    [pc |-> "idle", isOpen |-> FALSE, fd |-> 0, lock_fd |-> NoFd,
     sock |-> "none", pins |-> FALSE, raising |-> FALSE, last |-> "none",
     after |-> "none"]

\* fd: the lock file descriptor; conn: the daemon connected to; eof: the peer
\* has closed; req: the ApiRequest sent; resp: the api_id of each response
\* frame received; res: how the call ended.
ClientInit ==
    [pc |-> "idle", fd |-> 0, conn |-> 0, eof |-> FALSE, req |-> <<>>, resp |-> <<>>,
     res |-> "none"]

DaemonInit ==
    /\ lockPath = 0
    /\ lockHolder = [i \in Inodes |-> 0]
    /\ sockPath = 0
    /\ listening = {}
    /\ srv = [s \in Servers |-> ServerInit]
    /\ cl = [c \in Clients |-> ClientInit]

\* Inodes some descriptor or the path still refers to.
InodeUsed(i) ==
    \/ lockPath = i
    \/ \E s \in Servers : srv[s].fd = i \/ srv[s].lock_fd = OpenFd(i)
    \/ \E c \in Clients : cl[c].fd = i

\* open(lock_file, "w") / open(lock_file, "r+") on an existing file yields the
\* inode the path names; "w" on a missing file creates a new one.
FreshInode == CHOOSE i \in Inodes : ~InodeUsed(i) /\ \A j \in Inodes : j < i => InodeUsed(j)

\* Closing the last descriptor of a lock releases it (flock(2)).
Released(holder, p) == [i \in Inodes |-> IF holder[i] = p THEN 0 ELSE holder[i]]

FlockFree_Always(i) == TRUE

\* fcntl.flock(fd, LOCK_EX | LOCK_NB) succeeds iff no open file description
\* holds a lock on the inode.
FlockFree(i) == lockHolder[i] = 0

\* The peers of a listening socket that is closed see end of stream.
HangUp(s) ==
    [c \in Clients |-> IF cl[c].conn = s THEN [cl[c] EXCEPT !.conn = 0, !.eof = TRUE] ELSE cl[c]]

(* ---- Server.open(): daemon.py 328-332, _setup_socket 262-284 ---- *)

\* A daemon process starts (cli.py 61: with DaemonServer(...) as server):
\* X730.open(), then lock_fd = open(lock_file, "w").
SrvOpenLockFile(s) ==
    /\ srv[s].pc = "idle" /\ ~srv[s].isOpen
    /\ LET i == IF lockPath = 0 THEN FreshInode ELSE lockPath IN
        /\ lockPath' = i
        /\ srv' = [srv EXCEPT ![s].pins = TRUE, ![s].fd = i, ![s].pc = "o_flock",
                              ![s].after = srv[s].last]
    /\ UNCHANGED <<lockHolder, sockPath, listening, cl>>
    /\ UNCHANGED <<xvars, ovars>>

\* _setup_socket going on to the socket whether or not it got the lock.
SrvFlock_FailureIgnored(s) ==
    /\ srv[s].pc = "o_flock"
    /\ lockHolder' = IF FlockFree(srv[s].fd)
                     THEN [Released(lockHolder, s) EXCEPT ![srv[s].fd] = s]
                     ELSE lockHolder
    /\ srv' = [srv EXCEPT ![s].lock_fd = OpenFd(srv[s].fd), ![s].fd = 0, ![s].pc = "o_exists"]
    /\ UNCHANGED <<lockPath, sockPath, listening, cl>>
    /\ UNCHANGED <<xvars, ovars>>

\* fcntl.flock(lock_fd, LOCK_EX | LOCK_NB); on OSError close and re-raise,
\* else self._lock_fd = lock_fd.
SrvFlock(s) ==
    /\ srv[s].pc = "o_flock"
    /\ IF FlockFree(srv[s].fd)
       THEN /\ lockHolder' = [Released(lockHolder, s) EXCEPT ![srv[s].fd] = s]
            /\ srv' = [srv EXCEPT ![s].lock_fd = OpenFd(srv[s].fd), ![s].fd = 0,
                                  ![s].pc = "o_exists"]
       ELSE /\ lockHolder' = lockHolder
            /\ srv' = [srv EXCEPT ![s].fd = 0, ![s].pc = "idle", ![s].last = "open_lock"]
    /\ UNCHANGED <<lockPath, sockPath, listening, cl>>
    /\ UNCHANGED <<xvars, ovars>>

\* if sock_file.exists():
SrvSockExists(s) ==
    /\ srv[s].pc = "o_exists"
    /\ srv' = [srv EXCEPT ![s].pc = IF sockPath # 0 THEN "o_unlink" ELSE "o_bind"]
    /\ UNCHANGED <<lockPath, lockHolder, sockPath, listening, cl>>
    /\ UNCHANGED <<xvars, ovars>>

\* sock_file.unlink(): FileNotFoundError when the file is gone by now.
SrvSockUnlink(s) ==
    /\ srv[s].pc = "o_unlink"
    /\ IF sockPath # 0
       THEN /\ sockPath' = 0
            /\ srv' = [srv EXCEPT ![s].pc = "o_bind"]
       ELSE /\ sockPath' = sockPath
            /\ srv' = [srv EXCEPT ![s].pc = "idle", ![s].last = "open_sock"]
    /\ UNCHANGED <<lockPath, lockHolder, listening, cl>>
    /\ UNCHANGED <<xvars, ovars>>

\* if not self._socket: socket(), bind(), listen(), settimeout(); bind raises
\* OSError (address in use) when the path exists.  open() returns.
SrvBind(s) ==
    /\ srv[s].pc = "o_bind"
    /\ IF srv[s].sock # "none"
       THEN /\ UNCHANGED <<sockPath, listening>>
            /\ srv' = [srv EXCEPT ![s].pc = "idle", ![s].isOpen = TRUE, ![s].last = "open_ok"]
       ELSE IF sockPath # 0
       THEN /\ UNCHANGED <<sockPath, listening>>
            /\ srv' = [srv EXCEPT ![s].sock = "created", ![s].pc = "idle",
                                  ![s].last = "open_sock"]
       ELSE /\ sockPath' = s
            /\ listening' = listening \cup {s}
            /\ srv' = [srv EXCEPT ![s].sock = "bound", ![s].pc = "idle",
                                  ![s].isOpen = TRUE, ![s].last = "open_ok"]
    /\ UNCHANGED <<lockPath, lockHolder, cl>>
    /\ UNCHANGED <<xvars, ovars>>

(* ---- Server.serve(): daemon.py 305-307 ---- *)

\* serve() is "pass": it accepts nothing, reads nothing and answers nothing.
SrvServe(s) ==
    /\ srv[s].pc = "idle" /\ srv[s].isOpen
    /\ UNCHANGED vars

(* ---- Server.close(): daemon.py 334-340, _teardown_socket 286-303 ---- *)

\* The with block of cli.py 61 ends: close() starts.  _teardown_socket reads
\* self._lock_fd (AttributeError when open() never set it), then
\* if _socket is not None: _socket.close().
SrvCloseSocket(s) ==
    /\ srv[s].pc = "idle"
    /\ IF srv[s].lock_fd.st = "unset"
       THEN /\ srv' = [srv EXCEPT ![s].isOpen = FALSE, ![s].sock = "none",
                                  ![s].last = "close_err", ![s].after = srv[s].last]
            /\ UNCHANGED <<listening, cl>>
       ELSE IF srv[s].sock # "none"
       THEN /\ listening' = listening \ {s}
            /\ cl' = HangUp(s)
            /\ srv' = [srv EXCEPT ![s].isOpen = FALSE, ![s].pc = "c_sockunlink",
                                  ![s].after = srv[s].last]
       ELSE /\ srv' = [srv EXCEPT ![s].isOpen = FALSE, ![s].pc = "c_unlock",
                                  ![s].after = srv[s].last]
            /\ UNCHANGED <<listening, cl>>
    /\ UNCHANGED <<lockPath, lockHolder, sockPath>>
    /\ UNCHANGED <<xvars, ovars>>

\* _teardown_socket leaving the socket file in place.
SrvTdSockUnlink_FileKept(s) ==
    /\ srv[s].pc = "c_sockunlink"
    /\ srv' = [srv EXCEPT ![s].pc = "c_unlock"]
    /\ UNCHANGED <<lockPath, lockHolder, sockPath, listening, cl>>
    /\ UNCHANGED <<xvars, ovars>>

\* sock_file.unlink(); FileNotFoundError leaves the try block for finally.
SrvTdSockUnlink(s) ==
    /\ srv[s].pc = "c_sockunlink"
    /\ IF sockPath # 0
       THEN /\ sockPath' = 0
            /\ srv' = [srv EXCEPT ![s].pc = "c_unlock"]
       ELSE /\ sockPath' = sockPath
            /\ srv' = [srv EXCEPT ![s].raising = TRUE, ![s].pc = "c_fdclose"]
    /\ UNCHANGED <<lockPath, lockHolder, listening, cl>>
    /\ UNCHANGED <<xvars, ovars>>

\* if lock_fd is not None: fcntl.flock(lock_fd, LOCK_UN); ValueError on a
\* closed file object.
SrvTdUnlock(s) ==
    /\ srv[s].pc = "c_unlock"
    /\ IF srv[s].lock_fd.st = "open"
       THEN /\ lockHolder' = Released(lockHolder, s)
            /\ srv' = [srv EXCEPT ![s].pc = "c_fdclose"]
       ELSE /\ lockHolder' = lockHolder
            /\ srv' = [srv EXCEPT ![s].raising = TRUE, ![s].pc = "c_fdclose"]
    /\ UNCHANGED <<lockPath, sockPath, listening, cl>>
    /\ UNCHANGED <<xvars, ovars>>

\* finally: lock_fd.close()
SrvTdFdClose(s) ==
    /\ srv[s].pc = "c_fdclose"
    /\ lockHolder' = Released(lockHolder, s)
    /\ srv' = [srv EXCEPT ![s].lock_fd = ClosedFd, ![s].pc = "c_lockunlink"]
    /\ UNCHANGED <<lockPath, sockPath, listening, cl>>
    /\ UNCHANGED <<xvars, ovars>>

\* finally: lock_file.unlink(); then, unless an exception is on its way,
\* self._x730.close(); in close()'s finally self._socket = None.
SrvTdLockUnlink(s) ==
    /\ srv[s].pc = "c_lockunlink"
    /\ LET ok == lockPath # 0 /\ ~srv[s].raising IN
        /\ lockPath' = 0
        /\ srv' = [srv EXCEPT ![s].pins = IF ok THEN FALSE ELSE srv[s].pins,
                              ![s].sock = "none", ![s].raising = FALSE, ![s].pc = "idle",
                              ![s].last = IF ok THEN "close_ok" ELSE "close_err"]
    /\ UNCHANGED <<lockHolder, sockPath, listening, cl>>
    /\ UNCHANGED <<xvars, ovars>>

\* The daemon process ends, after close() or with the exception open()
\* raised: the kernel closes its descriptors, which releases its locks.
SrvExit(s) ==
    /\ srv[s].pc = "idle" /\ ~srv[s].isOpen /\ srv[s].last # "none"
    /\ lockHolder' = Released(lockHolder, s)
    /\ listening' = listening \ {s}
    /\ cl' = HangUp(s)
    /\ srv' = [srv EXCEPT ![s] = ServerInit]
    /\ UNCHANGED <<lockPath, sockPath>>
    /\ UNCHANGED <<xvars, ovars>>

(* ---- Client._api_call: daemon.py 387-403 ---- *)

\* API.DEFAULT_API_ID, the api_id of both Daemon.reboot and Daemon.poweroff
\* (daemon.py 183, 191), which _make_patch puts into every ApiRequest.
DEFAULT_API_ID == ""

\* The call ends: an exception leaves _api_call, or the response is returned;
\* the with blocks close the descriptors.
ClientDone(c, result) ==
    [ClientInit EXCEPT !.pc = "done", !.req = cl[c].req, !.resp = cl[c].resp, !.res = result]

\* The functions of Daemon that carry the API decorator (183-197).
ApiFuncs ==
    {[name |-> "reboot", qualname |-> "Daemon.reboot"],
     [name |-> "poweroff", qualname |-> "Daemon.poweroff"]}

\* API.api_id(func) (63-71): the default identifier of a function.  Nothing
\* calls it.
API_api_id(func) == func.qualname

\* API.__init__ (118-119) keeps the api_id it is given.
API_init(id) == [api_id |-> id]

\* The API object of each function: @API(api_id=API.DEFAULT_API_ID) (183, 191).
DaemonApis == [f \in ApiFuncs |-> API_init(DEFAULT_API_ID)]

\* The request of the patched method (379): ApiRequest(api_id=api.api_id, ...).
ApiRequestOf(f) == [api_id |-> DaemonApis[f].api_id]

\* with open(self._lock_file, "r+") as lock_fd: FileNotFoundError when the
\* file does not exist.
ClientOpenLock(c) ==
    /\ cl[c].pc = "idle"
    /\ IF lockPath = 0
       THEN cl' = [cl EXCEPT ![c] = ClientDone(c, "FileNotFoundError")]
       ELSE cl' = [cl EXCEPT ![c].pc = "probe", ![c].fd = lockPath]
    /\ UNCHANGED <<lockPath, lockHolder, sockPath, listening, srv>>
    /\ UNCHANGED <<xvars, ovars>>

\* fcntl.flock(lock_fd, LOCK_EX | LOCK_NB): OSError is taken to mean that a
\* daemon holds the lock, and the with block ends (the descriptor is closed).
ClientProbe(c) ==
    /\ cl[c].pc = "probe"
    /\ IF FlockFree(cl[c].fd)
       THEN /\ lockHolder' = [lockHolder EXCEPT ![cl[c].fd] = c]
            /\ cl' = [cl EXCEPT ![c].pc = "unlock"]
       ELSE /\ lockHolder' = lockHolder
            /\ cl' = [cl EXCEPT ![c].pc = "connect", ![c].fd = 0]
    /\ UNCHANGED <<lockPath, sockPath, listening, srv>>
    /\ UNCHANGED <<xvars, ovars>>

\* fcntl.flock(lock_fd, LOCK_UN); raise RuntimeError("... Daemon not running.")
ClientUnlock(c) ==
    /\ cl[c].pc = "unlock"
    /\ lockHolder' = Released(lockHolder, c)
    /\ cl' = [cl EXCEPT ![c] = ClientDone(c, "DaemonNotRunning")]
    /\ UNCHANGED <<lockPath, sockPath, listening, srv>>
    /\ UNCHANGED <<xvars, ovars>>

\* client.connect(str(self._sock_file)): FileNotFoundError without the file,
\* ConnectionRefusedError when nothing listens on it.
ClientConnect(c) ==
    /\ cl[c].pc = "connect"
    /\ IF sockPath # 0 /\ sockPath \in listening
       THEN cl' = [cl EXCEPT ![c].pc = "send", ![c].conn = sockPath]
       ELSE cl' = [cl EXCEPT ![c] = ClientDone(c, "ConnectError")]
    /\ UNCHANGED <<lockPath, lockHolder, sockPath, listening, srv>>
    /\ UNCHANGED <<xvars, ovars>>

\* client.sendall(request.to_json().encode()), the request being that of the
\* method called (cli.py 50-53): BrokenPipeError when the daemon has closed
\* its socket.
ClientSend(c) ==
    /\ cl[c].pc = "send"
    /\ IF cl[c].eof
       THEN cl' = [cl EXCEPT ![c] = ClientDone(c, "BrokenPipeError")]
       ELSE \E f \in ApiFuncs :
                cl' = [cl EXCEPT ![c].pc = "recv", ![c].req = <<ApiRequestOf(f)>>]
    /\ UNCHANGED <<lockPath, lockHolder, sockPath, listening, srv>>
    /\ UNCHANGED <<xvars, ovars>>

\* response = ApiResponse.from_json(_sock_receive_all(client, ...).decode()):
\* the socket has no timeout; recv returns b"" only once the peer has closed,
\* and from_json of no frame raises JSONDecodeError.
ClientRecv(c) ==
    /\ cl[c].pc = "recv"
    /\ cl[c].eof
    /\ IF cl[c].resp = <<>>
       THEN cl' = [cl EXCEPT ![c] = ClientDone(c, "JSONDecodeError")]
       ELSE cl' = [cl EXCEPT ![c] = ClientDone(c, "Response")]
    /\ UNCHANGED <<lockPath, lockHolder, sockPath, listening, srv>>
    /\ UNCHANGED <<xvars, ovars>>

\* The client process ends (cli.py 49-53).
ClientExit(c) ==
    /\ cl[c].pc = "done"
    /\ cl' = [cl EXCEPT ![c] = ClientInit]
    /\ UNCHANGED <<lockPath, lockHolder, sockPath, listening, srv>>
    /\ UNCHANGED <<xvars, ovars>>

(***************************************************************************)
(* Part C: _sock_receive_all (daemon.py 42-51)                             *)
(***************************************************************************)
Min(a, b) == IF a < b THEN a ELSE b

\* Longest message of the peer.
MaxMsg == 3
\* Largest limit given.
MaxLimit == 3
\* The values of a byte that are told apart.
RxBytes == {0, 1}
\* limit=None
NoLimit == 0 - 1
\* recv(4096) without a limit (47)
RECV_SIZE == 4096

Messages == UNION {[1..n -> RxBytes] : n \in 0..MaxMsg}
Limits == (1..MaxLimit) \cup {NoLimit}

RxIdle == [pc |-> "idle", limit |-> NoLimit, sent |-> <<>>, wire |-> <<>>, buffer |-> <<>>]

\* _sock_receive_all(sock, limit) is called on a connection on which the peer
\* sends m and then closes; buffer = bytearray() (43).
RxCall(m, l) ==
    /\ rx.pc = "idle"
    /\ rx' = [pc |-> "check", limit |-> l, sent |-> m, wire |-> m, buffer |-> <<>>]
    /\ UNCHANGED <<dvars, xvars, sv>>

\* if not (limit is None or len(buffer) < limit): raise OverflowError (45-46)
RxCheck ==
    /\ rx.pc = "check"
    /\ rx' = [rx EXCEPT !.pc = IF ~(rx.limit = NoLimit \/ Len(rx.buffer) < rx.limit)
                                THEN "OverflowError" ELSE "recv"]
    /\ UNCHANGED <<dvars, xvars, sv>>

\* data = sock.recv(4096 if limit is None else limit - len(buffer)): at least
\* one byte and at most that many of those on the way, b"" at the end of the
\* stream; if not data: break, return bytes(buffer); else buffer.extend(data)
\* (47-51).
RxRecv ==
    /\ rx.pc = "recv"
    /\ LET size == IF rx.limit = NoLimit THEN RECV_SIZE ELSE rx.limit - Len(rx.buffer) IN
        IF rx.wire = <<>>
        THEN rx' = [rx EXCEPT !.pc = "returned"]
        ELSE \E k \in 1..Min(size, Len(rx.wire)) :
                rx' = [rx EXCEPT !.pc = "check",
                                 !.buffer = rx.buffer \o SubSeq(rx.wire, 1, k),
                                 !.wire = SubSeq(rx.wire, k + 1, Len(rx.wire))]
    /\ UNCHANGED <<dvars, xvars, sv>>

\* The caller has the result.
RxEnd ==
    /\ rx.pc \in {"returned", "OverflowError"}
    /\ rx' = RxIdle
    /\ UNCHANGED <<dvars, xvars, sv>>

RxNext == (\E m \in Messages, l \in Limits : RxCall(m, l)) \/ RxCheck \/ RxRecv \/ RxEnd

(***************************************************************************)
(* Part D: Server.serve_until (daemon.py 309-326)                          *)
(***************************************************************************)
\* Serve steps of one call of serve_until.
MaxServeSteps == 12
\* The stop flag has not been set during this call.
NotSet == 0 - 1

\* event: a stop_event was given; flag: the flag of the event; steps: calls
\* of serve() begun in this call of serve_until; setAt: the value of steps
\* when the flag was set during this call; preset: the flag was set when
\* serve_until was entered.
SvIdle(flag) ==
    [pc |-> "idle", event |-> FALSE, flag |-> flag, steps |-> 0, setAt |-> NotSet,
     preset |-> FALSE]

OInit == rx = RxIdle /\ sv = SvIdle(FALSE)

\* serve_until(stop_event) is called, with an event or with None.
SuEnter(event) ==
    /\ sv.pc = "idle"
    /\ sv' = [sv EXCEPT !.pc = "clear", !.event = event, !.preset = sv.flag]
    /\ UNCHANGED <<dvars, xvars, rx>>

\* serve_until without the clear.
SuClear_FlagKept ==
    /\ sv.pc = "clear"
    /\ sv' = [sv EXCEPT !.pc = "test"]
    /\ UNCHANGED <<dvars, xvars, rx>>

\* if stop_event is not None: stop_event.clear() (319-320)
SuClear ==
    /\ sv.pc = "clear"
    /\ sv' = [sv EXCEPT !.pc = "test", !.flag = IF sv.event THEN FALSE ELSE sv.flag]
    /\ UNCHANGED <<dvars, xvars, rx>>

\* while not stop_event or not stop_event.is_set(): (322)
SuTest ==
    /\ sv.pc = "test"
    /\ IF sv.event /\ sv.flag
       THEN sv' = [sv EXCEPT !.pc = "returned"]
       ELSE /\ sv.steps < MaxServeSteps
            /\ sv' = [sv EXCEPT !.pc = "serve", !.steps = sv.steps + 1]
    /\ UNCHANGED <<dvars, xvars, rx>>

\* try: self.serve() (323-324); serve() is "pass" and raises nothing, so the
\* except branch (325-326) is never entered.
SuServe ==
    /\ sv.pc = "serve"
    /\ sv' = [sv EXCEPT !.pc = "test"]
    /\ UNCHANGED <<dvars, xvars, rx>>

\* serve_until has returned to its caller.
SuEnd ==
    /\ sv.pc = "returned"
    /\ sv' = SvIdle(sv.flag)
    /\ UNCHANGED <<dvars, xvars, rx>>

\* Another thread sets the stop event.
SetStop ==
    /\ ~sv.flag
    /\ sv' = [sv EXCEPT !.flag = TRUE,
                        !.setAt = IF sv.pc \in {"clear", "test", "serve"} /\ sv.event
                                  THEN sv.steps ELSE sv.setAt]
    /\ UNCHANGED <<dvars, xvars, rx>>

ServeNext ==
    \/ \E event \in BOOLEAN : SuEnter(event)
    \/ SuClear \/ SuTest \/ SuServe \/ SuEnd \/ SetStop

(***************************************************************************)
(* Part B: x730.py                                                         *)
(*                                                                         *)
(* Time is counted in ticks of 0.1 s.  The code reads time.monotonic() only *)
(* to take the difference to the instant stored in _shutdown_status, and   *)
(* time.sleep(d) returns d ticks after the call; the model keeps these     *)
(* differences (sinceStatus, thr.remaining, held) and Tick advances them.  *)
(***************************************************************************)
SHUTDOWN_STATUS_REBOOT_PULSE_MINIMUM == 2
SHUTDOWN_STATUS_REBOOT_PULSE_MAXIMUM == 6
SHUTDOWN_BUTTON_REBOOT_PULSE == 12
SHUTDOWN_BUTTON_POWEROFF_PULSE == 50
SHUTDOWN_BUTTON_CRASH_PULSE == 100

\* Measured pulses of MaxPulse ticks and more are not told apart.
MaxPulse == 7
\* Pulses of the board on the status line in one run.
MaxPulses == 2

\* X730.__init__ (41-47): closed, no pin devices, _shutdown_status = (False, now).
ControllerInit ==
    [opened |-> FALSE, boot_pin |-> "none", button_pin |-> "none",
     status_pin |-> "none", status |-> FALSE]

CallKinds == {"reboot", "poweroff", "poweroff_force"}

XInit ==
    /\ x = ControllerInit
    /\ sinceStatus = 0
    /\ held = 0
    /\ line = FALSE
    /\ npulses = 0
    /\ thr = [pc |-> "idle", kind |-> "none", remaining |-> 0, before |-> "none", seen |-> <<>>]
    /\ cb = [pc |-> "idle", op |-> "none", raised |-> FALSE, ops |-> 0]
    /\ osLog = <<>>
    /\ cls = [pulse |-> 0, action |-> "none", after |-> "none"]

\* X730.open (96-106): the boot line active, the button line inactive, the
\* status input with its two edge callbacks.
Opened ==
    [x EXCEPT !.opened = TRUE, !.boot_pin = "on", !.button_pin = "off", !.status_pin = "input"]

\* X730.close (108-120): _opened = False, then each pin is closed and set to
\* None in turn; on a pin that is None this raises AttributeError, and the
\* pins after it are None as well (open() creates them in the same order).
Closed ==
    IF ~x.opened THEN x
    ELSE [x EXCEPT !.opened = FALSE, !.boot_pin = "none", !.button_pin = "none",
                   !.status_pin = "none"]

HoldTime_ForceIgnored(kind) ==
    IF kind = "reboot" THEN SHUTDOWN_BUTTON_REBOOT_PULSE ELSE SHUTDOWN_BUTTON_POWEROFF_PULSE

\* time.sleep argument of reboot (142) and poweroff (131)
HoldTime(kind) ==
    CASE kind = "reboot" -> SHUTDOWN_BUTTON_REBOOT_PULSE
      [] kind = "poweroff" -> SHUTDOWN_BUTTON_POWEROFF_PULSE
      [] kind = "poweroff_force" -> SHUTDOWN_BUTTON_CRASH_PULSE

\* _on_shutdown_status 80-94: what a pulse measured on a falling edge leads to.
Classify(pulse) ==
    IF ~(pulse > SHUTDOWN_STATUS_REBOOT_PULSE_MINIMUM) THEN "ignored"
    ELSE IF pulse < SHUTDOWN_STATUS_REBOOT_PULSE_MAXIMUM THEN "reboot"
    ELSE "poweroff"

(* ---- the thread that uses the controller ---- *)

\* The pin device whose creation raises in open(), if any.
PinFailures == {"none", "boot", "button", "status"}

\* X730.open (96-106) when the creation of a pin device raises: _opened is
\* already True (99) and the devices created before are kept.
OpenedUpTo(fail) ==
    CASE fail = "none" -> Opened
      [] fail = "boot" -> [x EXCEPT !.opened = TRUE]
      [] fail = "button" -> [x EXCEPT !.opened = TRUE, !.boot_pin = "on"]
      [] fail = "status" -> [x EXCEPT !.opened = TRUE, !.boot_pin = "on", !.button_pin = "off"]

\* open() on a controller that is not open; on an opened one it returns at once.
XOpen ==
    /\ thr.pc # "sleep" /\ ~x.opened
    /\ \E fail \in PinFailures : x' = OpenedUpTo(fail)
    /\ cb' = [cb EXCEPT !.ops = 0]
    /\ UNCHANGED <<sinceStatus, held, line, npulses, thr, osLog, cls>>
    /\ UNCHANGED <<dvars, ovars>>

\* X730() is evaluated again (as in Server.__init__, daemon.py 247): __new__
\* (35-39) returns the one instance and Python then runs __init__ (41-47) on
\* it, which sets _opened = False, the three pin attributes to None and
\* _shutdown_status to (False, now).  The pin devices, no longer referenced,
\* are closed when they are collected.  thr.pc = "new" records that this was
\* the last thing the thread did.
XConstruct ==
    /\ thr.pc # "sleep"
    /\ x' = ControllerInit
    /\ sinceStatus' = 0
    /\ held' = 0
    /\ thr' = [thr EXCEPT !.pc = "new"]
    /\ UNCHANGED <<line, npulses, cb, osLog, cls>>
    /\ UNCHANGED <<dvars, ovars>>

XClose ==
    /\ thr.pc # "sleep" /\ x.opened
    /\ x' = Closed
    /\ UNCHANGED <<sinceStatus, held, line, npulses, thr, cb, osLog, cls>>
    /\ UNCHANGED <<dvars, ovars>>

\* reboot() 140-142 / poweroff() 129-131: self._shutdown_button_pin.on(), which
\* raises AttributeError when the pin is None, then time.sleep(...) begins.
\* thr.before is the button line as the call found it, thr.seen the
\* transitions of the line the call has made.
CallStart(kind) ==
    /\ thr.pc # "sleep"
    /\ IF x.button_pin = "none"
       THEN /\ thr' = [pc |-> "failed", kind |-> kind, remaining |-> 0,
                       before |-> x.button_pin, seen |-> <<>>]
            /\ UNCHANGED <<x, held>>
       ELSE /\ thr' = [pc |-> "sleep", kind |-> kind, remaining |-> HoldTime(kind),
                       before |-> x.button_pin,
                       seen |-> IF x.button_pin = "off"
                                THEN <<[level |-> TRUE, held |-> 0]>> ELSE <<>>]
            /\ x' = [x EXCEPT !.button_pin = "on"]
            /\ held' = IF x.button_pin = "off" THEN 0 ELSE held
    /\ UNCHANGED <<sinceStatus, line, npulses, cb, osLog, cls>>
    /\ UNCHANGED <<dvars, ovars>>

\* The call as section 4.2 of the specification has it: after off() it runs
\* the OS command itself.
CallWake_RunsOsCommand ==
    /\ thr.pc = "sleep" /\ thr.remaining = 0 /\ x.button_pin # "none"
    /\ thr' = [thr EXCEPT !.pc = "done"]
    /\ x' = [x EXCEPT !.button_pin = "off"]
    /\ held' = 0
    /\ osLog' = Append(osLog, IF thr.kind = "reboot" THEN "reboot" ELSE "poweroff")
    /\ UNCHANGED <<sinceStatus, line, npulses, cb, cls>>
    /\ UNCHANGED <<dvars, ovars>>

\* time.sleep returns; self._shutdown_button_pin.off() (132, 143), which raises
\* AttributeError when the pin is None; the call returns.
CallWake ==
    /\ thr.pc = "sleep" /\ thr.remaining = 0
    /\ IF x.button_pin = "none"
       THEN /\ thr' = [thr EXCEPT !.pc = "failed"]
            /\ UNCHANGED <<x, held>>
       ELSE /\ thr' = [thr EXCEPT !.pc = "done",
                                  !.seen = IF x.button_pin = "on"
                                           THEN Append(thr.seen, [level |-> FALSE, held |-> held])
                                           ELSE thr.seen]
            /\ x' = [x EXCEPT !.button_pin = "off"]
            /\ held' = 0
    /\ UNCHANGED <<sinceStatus, line, npulses, cb, osLog, cls>>
    /\ UNCHANGED <<dvars, ovars>>

(* ---- the status line and its callback thread ---- *)

\* The board changes the level of the status line.  With the input device
\* open, when_activated / when_deactivated (105-106) run _on_shutdown_status
\* 70-94 up to the call of _sys_reboot / _sys_poweroff.
StatusEdge(level) ==
    /\ cb.pc = "idle" /\ line # level
    /\ level => npulses < MaxPulses
    /\ line' = level
    /\ npulses' = IF level THEN npulses + 1 ELSE npulses
    /\ IF x.status_pin = "none"
       THEN UNCHANGED <<x, sinceStatus, cb, cls>>
       ELSE /\ x' = [x EXCEPT !.status = level]
            /\ sinceStatus' = 0
            /\ IF x.status /\ ~level
               THEN /\ cls' = [pulse |-> sinceStatus, action |-> Classify(sinceStatus),
                               after |-> IF thr.pc = "done" THEN thr.kind ELSE "none"]
                    /\ cb' = IF Classify(sinceStatus) = "ignored" THEN cb
                             ELSE [cb EXCEPT !.pc = "sys", !.op = Classify(sinceStatus)]
               ELSE UNCHANGED <<cb, cls>>
    /\ UNCHANGED <<held, thr, osLog>>
    /\ UNCHANGED <<dvars, ovars>>

\* _sys_reboot 65-66 / _sys_poweroff 60-61: subprocess.run(..., check=True)
\* runs the command and raises CalledProcessError when it fails.
CbSys(ok) ==
    /\ cb.pc = "sys"
    /\ osLog' = Append(osLog, cb.op)
    /\ cb' = IF ok THEN [cb EXCEPT !.pc = "close", !.ops = cb.ops + 1]
             ELSE [pc |-> "idle", op |-> "none", raised |-> TRUE, ops |-> cb.ops + 1]
    /\ UNCHANGED <<x, sinceStatus, held, line, npulses, thr, cls>>
    /\ UNCHANGED <<dvars, ovars>>

\* self.close() (62, 67); the callback returns.
CbClose ==
    /\ cb.pc = "close"
    /\ x' = Closed
    /\ held' = 0
    /\ cb' = [cb EXCEPT !.pc = "idle", !.op = "none"]
    /\ UNCHANGED <<sinceStatus, line, npulses, thr, osLog, cls>>
    /\ UNCHANGED <<dvars, ovars>>

\* A tick of 0.1 s passes; a sleeper whose time is up runs first.
Tick ==
    /\ ~(thr.pc = "sleep" /\ thr.remaining = 0)
    /\ sinceStatus' = Min(sinceStatus + 1, MaxPulse)
    /\ held' = IF x.button_pin = "on" THEN held + 1 ELSE held
    /\ thr' = IF thr.pc = "sleep" THEN [thr EXCEPT !.remaining = thr.remaining - 1] ELSE thr
    /\ UNCHANGED <<x, line, npulses, cb, osLog, cls>>
    /\ UNCHANGED <<dvars, ovars>>

CallerStep ==
    \/ XOpen \/ XClose \/ XConstruct
    \/ (\E kind \in CallKinds : CallStart(kind)) \/ CallWake
CallbackStep ==
    \/ \E level \in BOOLEAN : StatusEdge(level)
    \/ \E ok \in BOOLEAN : CbSys(ok)
    \/ CbClose

X730Next == CallerStep \/ CallbackStep \/ Tick

Init == DaemonInit /\ XInit /\ OInit

\* The calling thread and the callback thread, interleaved in any order.
SpecX730 == Init /\ [][X730Next]_vars

\* The board answers after the call (the scenario of tests/test_x730): the
\* status line is quiet while a call is in progress, and no call starts while
\* the callback runs.
X730SeqNext ==
    \/ cb.pc = "idle" /\ CallerStep
    \/ thr.pc # "sleep" /\ CallbackStep
    \/ Tick
SpecX730Seq == Init /\ [][X730SeqNext]_vars

\* A Server object used in any way its methods allow: open() on an object
\* that is not open, close() at any time, also after an open() that failed
\* and after a close().
ServerApiStep(s) ==
    \/ SrvOpenLockFile(s) \/ SrvFlock(s) \/ SrvSockExists(s) \/ SrvSockUnlink(s)
    \/ SrvBind(s) \/ SrvServe(s) \/ SrvCloseSocket(s) \/ SrvTdSockUnlink(s)
    \/ SrvTdUnlock(s) \/ SrvTdFdClose(s) \/ SrvTdLockUnlink(s) \/ SrvExit(s)

\* A Server object as the daemon process uses it (cli.py 61-62, with
\* DaemonServer(...) as server): one open(), and close() only after open() has
\* returned; an exception of open() ends the process.
ServerStep(s) ==
    \/ srv[s].last = "none" /\ SrvOpenLockFile(s)
    \/ SrvFlock(s) \/ SrvSockExists(s) \/ SrvSockUnlink(s) \/ SrvBind(s) \/ SrvServe(s)
    \/ srv[s].isOpen /\ SrvCloseSocket(s)
    \/ SrvTdSockUnlink(s) \/ SrvTdUnlock(s) \/ SrvTdFdClose(s) \/ SrvTdLockUnlink(s)
    \/ SrvExit(s)

ClientStep(c) ==
    \/ ClientOpenLock(c) \/ ClientProbe(c) \/ ClientUnlock(c) \/ ClientConnect(c)
    \/ ClientSend(c) \/ ClientRecv(c) \/ ClientExit(c)

DaemonNext == (\E s \in Servers : ServerStep(s)) \/ (\E c \in Clients : ClientStep(c))

\* Daemon and client processes started at any time, their system calls
\* interleaved in any order.
SpecDaemon == Init /\ [][DaemonNext]_vars

\* A process that has started a call goes on with it; a daemon that serves
\* goes on serving (cli.py 62: serve_until() without a stop event) and is
\* under no obligation to close.
ServerProgress(s) == srv[s].pc # "idle" /\ ServerStep(s)
SpecDaemonFair ==
    /\ SpecDaemon
    /\ \A c \in Clients : WF_vars(ClientStep(c))
    /\ \A s \in Servers : WF_vars(ServerProgress(s))

\* Sequential use: a process takes a step only while every other process is
\* between two calls.
AtRest(p) == IF p \in Servers THEN srv[p].pc = "idle" ELSE cl[p].pc \in {"idle", "done"}
Alone(p) == \A q \in Procs \ {p} : AtRest(q)
SeqNext ==
    \/ \E s \in Servers : Alone(s) /\ ServerStep(s)
    \/ \E c \in Clients : Alone(c) /\ ClientStep(c)
SpecSeq == Init /\ [][SeqNext]_vars

\* Server objects of several processes used through their methods in any
\* order, their system calls interleaved.
ApiNext == \E s \in Servers : ServerApiStep(s)
SpecApi == Init /\ [][ApiNext]_vars

\* A Server object used in pairs of open() and close(): close() only after an
\* open() that returned, open() again after close() or after an open() that
\* failed.
ServerPairStep(s) ==
    \/ SrvOpenLockFile(s) \/ SrvFlock(s) \/ SrvSockExists(s) \/ SrvSockUnlink(s)
    \/ SrvBind(s) \/ SrvServe(s)
    \/ srv[s].isOpen /\ SrvCloseSocket(s)
    \/ SrvTdSockUnlink(s) \/ SrvTdUnlock(s) \/ SrvTdFdClose(s) \/ SrvTdLockUnlink(s)
    \/ SrvExit(s)

\* Sequential use of Server objects that are opened and closed in pairs, and
\* of clients.
RoundTripNext ==
    \/ \E s \in Servers : Alone(s) /\ ServerPairStep(s)
    \/ \E c \in Clients : Alone(c) /\ ClientStep(c)
SpecRoundTrip == Init /\ [][RoundTripNext]_vars

\* Calls of _sock_receive_all, one after the other.
SpecRx == Init /\ [][RxNext]_vars

\* Calls of serve_until, with the thread that sets the stop event.
SpecServe == Init /\ [][ServeNext]_vars

(***************************************************************************)
(* Claims about the daemon                                                 *)
(***************************************************************************)

\* C1: at most one daemon process at a time is between a successful open()
\* and the start of its close().
C1_AtMostOneOpen == Cardinality({s \in Servers : srv[s].isOpen}) <= 1

InOpen(s) == srv[s].pc \in {"o_flock", "o_exists", "o_unlink", "o_bind"}

\* C2: in sequential use, an open() that returns while another Server is open
\* has failed on the lock acquisition, and an open() that returns while no
\* other Server is open (none was opened, or each has completed close()) has
\* succeeded.
C2_SequentialLock ==
    [][\A q \in Servers :
        (InOpen(q) /\ srv'[q].pc = "idle") =>
            IF \E p \in Servers \ {q} : srv[p].isOpen
            THEN ~srv'[q].isOpen /\ srv'[q].last = "open_lock"
            ELSE srv'[q].isOpen /\ srv'[q].last = "open_ok"]_vars

\* A Server has completed close() and another Server's open() has succeeded.
C2_Witness ==
    \E p, q \in Servers : p # q /\ srv[p].last = "close_ok" /\ srv[q].isOpen

NoDaemonLock == \A i \in Inodes : lockHolder[i] \notin Servers

\* C4: a step of a client's lock probe (opening the lock file, flock, unlock)
\* taken while no daemon holds the lock never leads to the connect step, and
\* when it ends the call, the call has failed with "daemon not running".
C4_NoDaemonNoConnect ==
    [][\A c \in Clients :
        (NoDaemonLock /\ cl[c].pc \in {"idle", "probe", "unlock"} /\ cl'[c].pc # cl[c].pc) =>
            /\ cl'[c].pc # "connect"
            /\ cl'[c].pc = "done" => cl'[c].res = "DaemonNotRunning"]_vars

RequestSent(c) == cl[c].pc = "recv" \/ cl[c].res \in {"JSONDecodeError", "Response"}

\* C5: a call that has sent its request ends with exactly one response, whose
\* call id is the request's.
C5_ExactlyOneResponse ==
    \A c \in Clients :
        (cl[c].pc = "done" /\ RequestSent(c)) => cl[c].resp = <<DEFAULT_API_ID>>

\* C6: a client that waits for the response eventually returns from the call.
C6_CallTerminates ==
    \A c \in Clients : (cl[c].pc = "recv") ~> (cl[c].pc = "done")

(***************************************************************************)
(* Claims about the controller                                             *)
(***************************************************************************)

\* C3: a pulse measured on a falling edge leads to no action iff it is
\* shorter than the minimum, to a reboot iff it is at least the minimum and
\* shorter than the maximum, and to a power-off iff it is at least the
\* maximum.
C3_Classification ==
    cls.action # "none" =>
        /\ cls.action = "ignored" <=> cls.pulse < SHUTDOWN_STATUS_REBOOT_PULSE_MINIMUM
        /\ cls.action = "reboot" <=> (/\ SHUTDOWN_STATUS_REBOOT_PULSE_MINIMUM <= cls.pulse
                                      /\ cls.pulse < SHUTDOWN_STATUS_REBOOT_PULSE_MAXIMUM)
        /\ cls.action = "poweroff" <=> cls.pulse >= SHUTDOWN_STATUS_REBOOT_PULSE_MAXIMUM

\* C7: a call of reboot() / poweroff() that is between its first pin write
\* and its last step never coexists with the callback's action (the OS
\* command and the closing of the pins).
C7_NoOverlap == ~(thr.pc = "sleep" /\ cb.pc # "idle")

\* C8: a call that has returned found the button line inactive, made it
\* active and then inactive again, two transitions in all, and held it active
\* for the hold time of its kind; the three hold times are ordered reboot <
\* poweroff < forced poweroff; the line is not active after the call.  Only a
\* call on a controller without a button pin fails.
C8_ButtonPulse ==
    /\ thr.pc = "failed" => thr.before = "none"
    /\ SHUTDOWN_BUTTON_REBOOT_PULSE < SHUTDOWN_BUTTON_POWEROFF_PULSE
    /\ SHUTDOWN_BUTTON_POWEROFF_PULSE < SHUTDOWN_BUTTON_CRASH_PULSE
    /\ thr.pc = "done" =>
        /\ thr.before = "off"
        /\ x.button_pin # "on"
        /\ thr.seen = << [level |-> TRUE, held |-> 0],
                         [level |-> FALSE,
                          held |-> CASE thr.kind = "reboot" -> SHUTDOWN_BUTTON_REBOOT_PULSE
                                     [] thr.kind = "poweroff" -> SHUTDOWN_BUTTON_POWEROFF_PULSE
                                     [] thr.kind = "poweroff_force" -> SHUTDOWN_BUTTON_CRASH_PULSE] >>

\* A forced power-off has returned.
C8_Witness == thr.pc = "done" /\ thr.kind = "poweroff_force" /\ Len(thr.seen) = 2

C10_AnswerRunsOsCommand ==
    (npulses = 1 /\ ~line /\ cls.action # "none" /\ cb.pc = "idle") =>
        /\ (cls.after = "reboot" /\ cls.pulse >= SHUTDOWN_STATUS_REBOOT_PULSE_MINIMUM)
              => osLog = <<"reboot">>
        /\ (cls.after \in {"poweroff", "poweroff_force"}
              /\ cls.pulse >= SHUTDOWN_STATUS_REBOOT_PULSE_MAXIMUM)
              => osLog = <<"poweroff">>

(***************************************************************************)
(* Claims about the daemon, continued                                      *)
(***************************************************************************)

\* C11: the identifier in every request a client has sent is the fully
\* qualified name of an exposed operation, and exactly one exposed operation
\* has that identifier.
C11_CallIdRegistry ==
    \A c \in Clients : \A i \in 1..Len(cl[c].req) :
        LET id == cl[c].req[i].api_id IN
            /\ \E f \in ApiFuncs : id = API_api_id(f)
            /\ Cardinality({f \in ApiFuncs : DaemonApis[f].api_id = id}) = 1

\* C12: a close() that follows an open() which failed on the lock or on the
\* socket ends without an error, and when it has ended this process holds no
\* lock and the pins are released.
C12_CloseAfterFailedOpen ==
    \A s \in Servers :
        (/\ srv[s].pc = "idle"
         /\ srv[s].after \in {"open_lock", "open_sock"}
         /\ srv[s].last \in {"close_ok", "close_err"}) =>
            /\ srv[s].last = "close_ok"
            /\ ~srv[s].pins
            /\ \A i \in Inodes : lockHolder[i] # s

\* A close() that was called after a completed close() is in progress.
InSecondClose(s) ==
    /\ srv[s].after = "close_ok"
    /\ srv[s].pc \in {"c_sockunlink", "c_unlock", "c_fdclose", "c_lockunlink"}

\* C13: no step of a close() called after a completed close() raises an
\* error or changes the lock file, a lock or the socket file.
C13_SecondCloseNoOp ==
    [][\A s \in Servers :
        (InSecondClose(s) /\ srv'[s] # srv[s]) =>
            /\ ~srv'[s].raising /\ srv'[s].last # "close_err"
            /\ lockPath' = lockPath /\ lockHolder' = lockHolder /\ sockPath' = sockPath]_vars

\* C14: a finished call has returned exactly the bytes the peer sent when
\* they are no more than the limit and has failed with the overflow error
\* when they are more; the buffer never holds more than limit bytes.
C14_ReceiveLimit ==
    /\ rx.limit # NoLimit => Len(rx.buffer) <= rx.limit
    /\ rx.pc = "returned" => rx.buffer = rx.sent
    /\ rx.pc \in {"returned", "OverflowError"} =>
          (rx.pc = "OverflowError" <=> (rx.limit # NoLimit /\ Len(rx.sent) > rx.limit))

\* C15: when a client's probe fails to get the lock and the client goes on
\* to connect, a Server process holds the lock on the file the client probed.
C15_ProbeSeesDaemon ==
    [][\A c \in Clients :
        (cl[c].pc = "probe" /\ cl'[c].pc = "connect") =>
            lockHolder[cl[c].fd] \in Servers]_vars

\* C16: when the lock acquisition of open() fails, another Server process
\* holds the lock on the file.
C16_LockFailsOnlyOnDaemon ==
    [][\A s \in Servers :
        (srv[s].pc = "o_flock" /\ srv'[s].pc = "idle" /\ srv'[s].last = "open_lock") =>
            lockHolder[srv[s].fd] \in Servers \ {s}]_vars

\* The process holds the lock it acquired in _setup_socket.
HoldsLock(s) == srv[s].lock_fd.st = "open" /\ lockHolder[srv[s].lock_fd.ino] = s

\* C17: a Server whose lock acquisition fails ends open() with the error and
\* leaves the socket file and the listening sockets as they are; a step of a
\* Server that removes or creates the socket file, or makes it listen, is
\* taken while that process holds the lock it acquired.
C17_LockBeforeTransport ==
    [][\A s \in Servers :
        /\ (srv[s].pc = "o_flock" /\ srv'[s] # srv[s] /\ ~FlockFree(srv[s].fd)) =>
              /\ srv'[s].pc = "idle" /\ srv'[s].last = "open_lock" /\ ~srv'[s].isOpen
              /\ sockPath' = sockPath /\ listening' = listening
        /\ (srv'[s] # srv[s] /\ (sockPath' # sockPath \/ s \in listening' \ listening)) =>
              HoldsLock(s)]_vars

\* A Server's lock acquisition has failed while the daemon that holds the
\* lock is open with its socket file in place.
C17_Witness ==
    \E s, p \in Servers :
        /\ srv[s].pc = "idle" /\ srv[s].last = "open_lock"
        /\ srv[p].isOpen /\ HoldsLock(p) /\ sockPath = p /\ p \in listening

\* C18: a request that has been sent (whatever its call id) is answered: the
\* serve loop goes on and the client receives a response frame.
C18_RequestAnswered ==
    \A c \in Clients : (cl[c].pc = "recv") ~> (cl[c].resp # <<>>)

\* C19: once the stop flag has been set during a call of serve_until, no
\* further serve step is begun in that call.
C19_NoStepAfterStop == sv.setAt # NotSet => sv.steps = sv.setAt

\* C20: no run of the status-line callback ends with an error, whatever the
\* edges and whether or not the OS command succeeds.
C20_CallbackNeverRaises == ~cb.raised

(***************************************************************************)
(* Claims about the controller, continued                                  *)
(***************************************************************************)

\* C21: the opened flag is true iff all three pin devices are held, and
\* false iff none is held.
C21_FlagMatchesPins ==
    /\ x.opened <=> (x.boot_pin # "none" /\ x.button_pin # "none" /\ x.status_pin # "none")
    /\ ~x.opened <=> (x.boot_pin = "none" /\ x.button_pin = "none" /\ x.status_pin = "none")

\* C22: evaluating X730() again while the instance is opened leaves the
\* opened flag, the three pin handles and the recorded status edge as they
\* were.
C22_ConstructKeepsState ==
    [][(x.opened /\ thr.pc # "new" /\ thr'.pc = "new") =>
        (x' = x /\ sinceStatus' = sinceStatus)]_vars

\* C23: since the last open() of the controller the callback has run at most
\* one OS command.
C23_OneOsCommandPerOpen == cb.ops <= 1

(***************************************************************************)
(* Claims about serve_until and the round trip of the Server               *)
(***************************************************************************)

\* C24: serve_until, given a stop event, leaves its first step with the flag
\* cleared; each time it tests the flag it returns when an event was given
\* and its flag is set, which then was set during this call, and otherwise
\* begins a serve step; it returns in no other way, so never without an event.
C24_StopClearedOnEntry ==
    [][/\ (sv.pc = "clear" /\ sv'.pc # "clear" /\ sv.event) => ~sv'.flag
       /\ (sv.pc = "test" /\ sv'.pc # "test") =>
             IF sv.event /\ sv.flag
             THEN sv'.pc = "returned" /\ sv.setAt # NotSet
             ELSE sv'.pc = "serve"
       /\ (sv'.pc = "returned" /\ sv.pc # "returned") => (sv.pc = "test" /\ sv.event)]_vars

\* serve_until was entered with the stop flag set and is in a serve step with
\* the flag cleared.
C24_Witness == sv.pc = "serve" /\ sv.event /\ sv.preset /\ ~sv.flag

\* open() is in progress.
InOpenCall(s) == srv[s].pc \in {"o_flock", "o_exists", "o_unlink", "o_bind"}

\* C25: a close() that follows a successful open() ends without an error and
\* leaves no lock held by the process, no socket file, no lock file, the pins
\* released and the socket handle cleared; an open() that follows such a
\* close() while no other daemon is open succeeds.
C25_OpenCloseRoundTrip ==
    [][\A s \in Servers :
        /\ (srv[s].pc = "c_lockunlink" /\ srv'[s].pc = "idle" /\ srv[s].after = "open_ok") =>
              /\ srv'[s].last = "close_ok"
              /\ \A i \in Inodes : lockHolder'[i] # s
              /\ sockPath' = 0 /\ lockPath' = 0
              /\ ~srv'[s].pins /\ srv'[s].sock = "none"
        /\ (/\ InOpenCall(s) /\ srv'[s].pc = "idle" /\ srv[s].after = "close_ok"
            /\ \A q \in Servers \ {s} : ~srv[q].isOpen) =>
              (srv'[s].isOpen /\ srv'[s].last = "open_ok")]_vars

\* A Server is open again after a close() that ended without an error.
C25_Witness ==
    \E s \in Servers : srv[s].isOpen /\ srv[s].last = "open_ok" /\ srv[s].after = "close_ok"

====
